---- MODULE Spec2Model ----
(***************************************************************************)
(* Model of the movie API.                                                 *)
(*                                                                         *)
(*  - the file-backed variant (src/unnamed/part_000): an in-memory array   *)
(*    `movies` loaded once from movies.json and rewritten in full by       *)
(*    db_save after every mutating request;                                *)
(*  - the authentication pipeline of the database-backed variant           *)
(*    (src/server.js): the middleware that resolves res.locals.user from   *)
(*    the cookie and header carriers, and POST /auth/token.                *)
(*                                                                         *)
(* Node runs each handler's synchronous part to completion, so one action  *)
(* is one synchronous run: a handler up to the point where it returns to   *)
(* the event loop, an fs callback, or a promise reaction.                  *)
(***************************************************************************)
EXTENDS Integers, Sequences, FiniteSets, TLC

VARIABLES
    movies,     \* part_000: the array passed to the db_load().then callback
    file,       \* part_000: the JSON document stored in movies.json
    reqs,       \* part_000: the requests handled so far, in handling order
    restarts,   \* part_000: number of process restarts so far
    clock,      \* server.js: wall clock in seconds, Math.floor(Date.now() / 1000)
    issued,     \* server.js: the tokens handed out by POST /auth/token
    areq,       \* server.js: the last request that went through the middleware
    ticks,      \* server.js: number of clock advances so far
    coll,       \* server.js: the documents of the movies collection in MongoDB
    indexed,    \* server.js: whether the unique index on title has been built
    dreqs,      \* server.js: the movie requests handled so far, in handling order
    nextId      \* server.js: number of ObjectIds generated so far

fileVars == <<movies, file, reqs, restarts>>
authVars == <<clock, issued, areq, ticks>>
dbVars == <<coll, indexed, dreqs, nextId>>
vars == <<movies, file, reqs, restarts, clock, issued, areq, ticks, coll, indexed, dreqs, nextId>>

----------------------------------------------------------------------------
(* Bounds *)

MaxReqs == 2        \* requests handled by the file-backed server
MaxRestarts == 1    \* restarts of the file-backed server
MaxTicks == 2       \* clock advances in the authentication model
MaxTokens == 2      \* tokens issued by POST /auth/token
MaxDbReqs == 2      \* movie requests handled by the database-backed server

----------------------------------------------------------------------------
(* JavaScript values *)

\* the value of a missing property / an absent destructured field
UNDEF == "undefined"

MovieIds == {"m1", "m2"}

\* obj.k : reading a property that is not there yields undefined
Get(obj, k) == IF k \in DOMAIN obj THEN obj[k] ELSE UNDEF

\* obj.k = v
SetProp(obj, k, v) == [x \in (DOMAIN obj) \cup {k} |-> IF x = k THEN v ELSE obj[x]]

\* { title, description, year, director, producer, id } built from a body
MovieFields == {"title", "description", "year", "director", "producer", "id"}
MutableFields == {"title", "description", "year", "director", "producer"}

NewMovie(body) == [k \in MovieFields |-> Get(body, k)]

\* JSON.stringify of one object: properties whose value is undefined are dropped
StringifyObj(obj) == [k \in {x \in DOMAIN obj : obj[x] # UNDEF} |-> obj[k]]

\* JSON.stringify(movies) / JSON.parse(text): the text is modelled as the
\* sequence of the serialized objects
JSONstringify(ms) == [i \in DOMAIN ms |-> StringifyObj(ms[i])]
JSONparse(text) == text

----------------------------------------------------------------------------
(* Sequence helpers (lodash) *)

RECURSIVE FindIndex(_, _, _)
\* index of the first element of ms, from position i on, whose id is id; 0 if none
FindIndex(ms, id, i) ==
    IF i > Len(ms) THEN 0
    ELSE IF Get(ms[i], "id") = id THEN i
    ELSE FindIndex(ms, id, i + 1)

findMovieByIdDefined(ms, id) == IF id = UNDEF THEN 0 ELSE FindIndex(ms, id, 1)

\* _.find(movies, item => item.id === id): 0 stands for undefined
findMovieById(ms, id) == FindIndex(ms, id, 1)

RECURSIVE Without(_, _)
\* the elements of ms whose id is not id, in order (what _.remove leaves)
Without(ms, id) ==
    IF ms = <<>> THEN <<>>
    ELSE IF Get(Head(ms), "id") = id THEN Without(Tail(ms), id)
    ELSE <<Head(ms)>> \o Without(Tail(ms), id)

RECURSIVE Removed(_, _)
\* the elements of ms whose id is id, in order (what _.remove returns)
Removed(ms, id) ==
    IF ms = <<>> THEN <<>>
    ELSE IF Get(Head(ms), "id") = id THEN <<Head(ms)>> \o Removed(Tail(ms), id)
    ELSE Removed(Tail(ms), id)

\* JavaScript truthiness of the array returned by _.remove: every array,
\* the empty one included, is truthy
TruthyArray(arr) == TRUE

----------------------------------------------------------------------------
(* Requests of the file-backed server *)

\* request bodies: every mutable field supplied
Bodies ==
    { [title |-> "Dune", description |-> "", year |-> "2021",
       director |-> "dir", producer |-> "prod"],
      [title |-> "Alien", description |-> "", year |-> "1979",
       director |-> "dir", producer |-> "prod"] }

\* bodies of POST /movies: the id travels in the body and may be missing
PostBodies == Bodies \cup { SetProp(b, "id", i) : b \in Bodies, i \in MovieIds }

NoSnap == <<[none |-> "none"]>>
NoBody == [none |-> "none"]

\* a request record: op and arguments, control state, response status (0: no
\* response yet), the snapshot handed to fs.writeFile, whether the lookup hit,
\* the collection as it was when the handler started, and whether the write
\* was acknowledged without error
Req(op, id, body, pc, status, snap, found, before) ==
    [op |-> op, id |-> id, body |-> body, pc |-> pc, status |-> status,
     snap |-> snap, found |-> found, before |-> before, acked |-> FALSE]

Mutating == {"POST", "PUT", "DELETE"}

\* db_load at startup: movies.json as the process finds it
InitialFiles ==
    { <<>>,
      << [title |-> "Dune", description |-> "", year |-> "2021",
          director |-> "dir", producer |-> "prod", id |-> "m1"],
         [title |-> "Alien", description |-> "", year |-> "1979",
          director |-> "dir", producer |-> "prod", id |-> "m2"] >> }

InitFile ==
    /\ file \in InitialFiles
    /\ movies = JSONparse(file)
    /\ reqs = <<>>
    /\ restarts = 0

\* GET /movies
GetMovies ==
    /\ Len(reqs) < MaxReqs
    /\ reqs' = Append(reqs, Req("LIST", UNDEF, NoBody, "done", 200, NoSnap, TRUE, movies))
    /\ UNCHANGED <<movies, file, restarts>>
    /\ UNCHANGED <<authVars, dbVars>>

\* GET /movies/:id
GetMovie(id) ==
    LET idx == findMovieById(movies, id) IN
    /\ Len(reqs) < MaxReqs
    /\ reqs' = Append(reqs, Req("GET", id, NoBody, "done",
                                IF idx # 0 THEN 200 ELSE 404, NoSnap, idx # 0, movies))
    /\ UNCHANGED <<movies, file, restarts>>
    /\ UNCHANGED <<authVars, dbVars>>

\* POST /movies, up to the call of db_save
PostMovie(body) ==
    LET id == Get(body, "id")
        idx == findMovieById(movies, id)
        pushed == Append(movies, NewMovie(body))
    IN
    /\ Len(reqs) < MaxReqs
    /\ IF idx # 0
       THEN /\ reqs' = Append(reqs, Req("POST", id, body, "done", 409, NoSnap, TRUE, movies))
            /\ UNCHANGED movies
       ELSE /\ movies' = pushed
            /\ reqs' = Append(reqs, Req("POST", id, body, "writing", 0,
                                        JSONstringify(pushed), FALSE, movies))
    /\ UNCHANGED <<file, restarts>>
    /\ UNCHANGED <<authVars, dbVars>>

AssignTitleOnly(movie, body) ==
    [k \in (DOMAIN movie) \cup {"title"} |->
        IF k = "title" THEN Get(body, k) ELSE movie[k]]

AssignWithId(movie, body) ==
    [k \in (DOMAIN movie) \cup MovieFields |-> Get(body, k)]

\* the five assignments of PUT to the record found
Assign(movie, body) ==
    [k \in (DOMAIN movie) \cup MutableFields |->
        IF k \in MutableFields THEN Get(body, k) ELSE movie[k]]

\* PUT /movies/:id, up to the call of db_save
PutMovie(id, body) ==
    LET idx == findMovieById(movies, id)
        updated == [movies EXCEPT ![idx] = Assign(movies[idx], body)]
    IN
    /\ Len(reqs) < MaxReqs
    /\ IF idx # 0
       THEN /\ movies' = updated
            /\ reqs' = Append(reqs, Req("PUT", id, body, "writing", 0,
                                        JSONstringify(updated), TRUE, movies))
       ELSE /\ reqs' = Append(reqs, Req("PUT", id, body, "done", 404, NoSnap, FALSE, movies))
            /\ UNCHANGED movies
    /\ UNCHANGED <<file, restarts>>
    /\ UNCHANGED <<authVars, dbVars>>

\* DELETE /movies/:id, up to the call of db_save
DeleteMovie(id) ==
    LET removed == Removed(movies, id)
        rest == Without(movies, id)
    IN
    /\ Len(reqs) < MaxReqs
    /\ movies' = rest
    /\ IF TruthyArray(removed)
       THEN reqs' = Append(reqs, Req("DELETE", id, NoBody, "writing", 0,
                                     JSONstringify(rest), removed # <<>>, movies))
       ELSE reqs' = Append(reqs, Req("DELETE", id, NoBody, "done", 404, NoSnap, FALSE, movies))
    /\ UNCHANGED <<file, restarts>>
    /\ UNCHANGED <<authVars, dbVars>>

\* db_save: the fs.writeFile callback runs without error; the file now holds
\* the text that was serialized when db_save was called
WriteFileOk(r) ==
    /\ r \in DOMAIN reqs
    /\ reqs[r].pc = "writing"
    /\ file' = reqs[r].snap
    /\ reqs' = [reqs EXCEPT ![r].pc = "resolved", ![r].acked = TRUE]
    /\ UNCHANGED <<movies, restarts>>
    /\ UNCHANGED <<authVars, dbVars>>

\* db_save: the fs.writeFile callback runs with an error; the promise rejects
WriteFileErr(r) ==
    /\ r \in DOMAIN reqs
    /\ reqs[r].pc = "writing"
    /\ reqs' = [reqs EXCEPT ![r].pc = "rejected"]
    /\ UNCHANGED <<movies, file, restarts>>
    /\ UNCHANGED <<authVars, dbVars>>

\* the status sent by the .then reaction of db_save
SuccessStatus(op) == IF op = "POST" THEN 201 ELSE 204

CanRespondEarly(r) == reqs[r].pc \in {"writing", "resolved"}

\* the .then reaction runs only once the promise of db_save is resolved
CanRespond(r) == reqs[r].pc = "resolved"

\* db_save(movies).then(() => res.status(...)...)
Respond(r) ==
    /\ r \in DOMAIN reqs
    /\ CanRespond(r)
    /\ reqs' = [reqs EXCEPT ![r].pc = "done", ![r].status = SuccessStatus(reqs[r].op)]
    /\ UNCHANGED <<movies, file, restarts>>
    /\ UNCHANGED <<authVars, dbVars>>

\* the rejection of db_save: POST logs it in .catch, PUT and DELETE have no
\* rejection handler; in every case no response is sent and movies is kept
SaveRejected(r) ==
    /\ r \in DOMAIN reqs
    /\ reqs[r].pc = "rejected"
    /\ reqs' = [reqs EXCEPT ![r].pc = "silent"]
    /\ UNCHANGED <<movies, file, restarts>>
    /\ UNCHANGED <<authVars, dbVars>>

\* the process stops and starts again: db_load reads movies.json, requests
\* that were waiting for their write never get a response
Restart ==
    /\ restarts < MaxRestarts
    /\ restarts' = restarts + 1
    /\ movies' = JSONparse(file)
    /\ reqs' = [i \in DOMAIN reqs |->
                  IF reqs[i].pc \in {"writing", "resolved", "rejected"}
                  THEN [reqs[i] EXCEPT !.pc = "lost"] ELSE reqs[i]]
    /\ UNCHANGED file
    /\ UNCHANGED <<authVars, dbVars>>

NextFile ==
    \/ GetMovies
    \/ \E id \in MovieIds : GetMovie(id)
    \/ \E body \in PostBodies : PostMovie(body)
    \/ \E id \in MovieIds, body \in Bodies : PutMovie(id, body)
    \/ \E id \in MovieIds : DeleteMovie(id)
    \/ \E r \in DOMAIN reqs : WriteFileOk(r)
    \/ \E r \in DOMAIN reqs : WriteFileErr(r)
    \/ \E r \in DOMAIN reqs : Respond(r)
    \/ \E r \in DOMAIN reqs : SaveRejected(r)
    \/ Restart

----------------------------------------------------------------------------
(* Error classifier, src/server.js *)

\* an error object: its name and, for a mongoose ValidationError, the field
\* errors in the order of the keys of err.errors
Err(name, errors) == [name |-> name, errors |-> errors]
FieldError(path, kind) == [path |-> path, kind |-> kind]
NoErr == Err("none", <<>>)

getStatusCodeNoLoop(err) == IF err.name = "ValidationError" THEN 400 ELSE 500

RECURSIVE ForIn(_, _, _)
\* for(property in errors) { if(errors[property].kind === "unique") status = 409 }
ForIn(errors, i, status) ==
    IF i > Len(errors) THEN status
    ELSE ForIn(errors, i + 1, IF errors[i].kind = "unique" THEN 409 ELSE status)

getStatusCode(err) ==
    IF err.name = "ValidationError" THEN ForIn(err.errors, 1, 400) ELSE 500

----------------------------------------------------------------------------
(* Database-backed movie routes, src/server.js *)

\* bodies of POST /movies: complete ones, one without year, one with a
\* description only
DbBodies ==
    { [title |-> "Dune", description |-> "", year |-> "2021",
       director |-> "dir", producers |-> "prod"],
      [title |-> "Alien", description |-> "", year |-> "1979",
       director |-> "dir", producers |-> "prod"],
      [title |-> "Dune", description |-> "", director |-> "dir", producers |-> "prod"],
      [description |-> "text"] }

\* the required paths of movieSchema, in schema order
RequiredPaths == <<"title", "year", "director", "producers">>

RECURSIVE RequiredErrors(_, _)
\* the field errors of the required validators, from path i on
RequiredErrors(body, i) ==
    IF i > Len(RequiredPaths) THEN <<>>
    ELSE (IF Get(body, RequiredPaths[i]) = UNDEF
          THEN <<FieldError(RequiredPaths[i], "required")>> ELSE <<>>)
         \o RequiredErrors(body, i + 1)

\* some document of the collection carries the title t
DbTitleIn(docs, t) == \E i \in DOMAIN docs : docs[i].title = t

\* the query of mongoose-unique-validator: a field error of kind unique when
\* a document with the title exists; no query for a missing title
UniqueErrors(body, docs) ==
    IF Get(body, "title") # UNDEF /\ DbTitleIn(docs, Get(body, "title"))
    THEN <<FieldError("title", "unique")>> ELSE <<>>

\* the document Movie.create inserts
Doc(body, id) ==
    [xid |-> id, title |-> Get(body, "title"), description |-> Get(body, "description"),
     year |-> Get(body, "year"), director |-> Get(body, "director"),
     producers |-> Get(body, "producers")]

\* failures of the driver or of the server
DuplicateKey == Err("MongoServerError", <<>>)
Faults == { Err("MongoNetworkError", <<>>) }
CastError == Err("CastError", <<>>)

\* ids of GET /movies/:id: strings that are ObjectIds (n names which one)
\* and strings that are not
IdParams == { [valid |-> TRUE, n |-> i] : i \in 1..2 } \cup { [valid |-> FALSE, n |-> 0] }

DReq(op, id, body, pc, status, err) ==
    [op |-> op, id |-> id, body |-> body, pc |-> pc, status |-> status, err |-> err]

NoId == [valid |-> FALSE, n |-> 0]

\* connect().then: the collection as found, the index build of
\* unique: true started by model() and not finished
InitDb ==
    /\ coll = <<>>
    /\ indexed = FALSE
    /\ dreqs = <<>>
    /\ nextId = 0

\* titles of the collection are pairwise distinct
DbTitlesUnique(docs) == \A i, j \in DOMAIN docs : i # j => docs[i].title # docs[j].title

\* the index build of the unique index on title ends; it fails on duplicates
EnsureIndex ==
    /\ ~indexed
    /\ DbTitlesUnique(coll)
    /\ indexed' = TRUE
    /\ UNCHANGED <<coll, dreqs, nextId>>
    /\ UNCHANGED <<fileVars, authVars>>

\* POST /movies up to the await: Movie.create starts validating
DbPostMovie(body) ==
    /\ Len(dreqs) < MaxDbReqs
    /\ dreqs' = Append(dreqs, DReq("POST", NoId, body, "validating", 0, NoErr))
    /\ UNCHANGED <<coll, indexed, nextId>>
    /\ UNCHANGED <<fileVars, authVars>>

\* validation ends: the required validators and the uniqueness query have
\* run; with field errors Movie.create rejects and the catch block answers
DbValidated(r) ==
    LET errors == RequiredErrors(dreqs[r].body, 1) \o UniqueErrors(dreqs[r].body, coll)
        err == Err("ValidationError", errors)
    IN
    /\ r \in DOMAIN dreqs
    /\ dreqs[r].pc = "validating"
    /\ dreqs' = IF errors # <<>>
                THEN [dreqs EXCEPT ![r].pc = "done", ![r].err = err,
                                   ![r].status = getStatusCode(err)]
                ELSE [dreqs EXCEPT ![r].pc = "inserting"]
    /\ UNCHANGED <<coll, indexed, nextId>>
    /\ UNCHANGED <<fileVars, authVars>>

\* the insert reaches the server: the unique index, once built, refuses a
\* title that is present; otherwise the document is stored and 201 is sent
DbInsert(r) ==
    LET body == dreqs[r].body IN
    /\ r \in DOMAIN dreqs
    /\ dreqs[r].pc = "inserting"
    /\ IF indexed /\ DbTitleIn(coll, Get(body, "title"))
       THEN /\ dreqs' = [dreqs EXCEPT ![r].pc = "done", ![r].err = DuplicateKey,
                                      ![r].status = getStatusCode(DuplicateKey)]
            /\ UNCHANGED <<coll, nextId>>
       ELSE /\ nextId' = nextId + 1
            /\ coll' = Append(coll, Doc(body, nextId + 1))
            /\ dreqs' = [dreqs EXCEPT ![r].pc = "done", ![r].status = 201,
                                      ![r].id = [valid |-> TRUE, n |-> nextId + 1]]
    /\ UNCHANGED indexed
    /\ UNCHANGED <<fileVars, authVars>>

\* the insert fails for a reason of the driver or the server
DbInsertFault(r, fault) ==
    /\ r \in DOMAIN dreqs
    /\ dreqs[r].pc = "inserting"
    /\ dreqs' = [dreqs EXCEPT ![r].pc = "done", ![r].err = fault,
                              ![r].status = getStatusCode(fault)]
    /\ UNCHANGED <<coll, indexed, nextId>>
    /\ UNCHANGED <<fileVars, authVars>>

\* GET /movies/:id: findById casts the id, then queries
DbGetMovie(idp) ==
    /\ Len(dreqs) < MaxDbReqs
    /\ dreqs' = Append(dreqs,
          IF ~idp.valid
          THEN DReq("GET", idp, NoBody, "done", getStatusCode(CastError), CastError)
          ELSE DReq("GET", idp, NoBody, "done",
                    IF \E i \in DOMAIN coll : coll[i].xid = idp.n THEN 200 ELSE 404, NoErr))
    /\ UNCHANGED <<coll, indexed, nextId>>
    /\ UNCHANGED <<fileVars, authVars>>

NextDb ==
    \/ EnsureIndex
    \/ \E body \in DbBodies : DbPostMovie(body)
    \/ \E r \in DOMAIN dreqs : DbValidated(r)
    \/ \E r \in DOMAIN dreqs : DbInsert(r)
    \/ \E r \in DOMAIN dreqs, f \in Faults : DbInsertFault(r, f)
    \/ \E idp \in IdParams : DbGetMovie(idp)

----------------------------------------------------------------------------
(* Tokens (jsonwebtoken, as called from src/server.js) *)

secret == "ChangeMe!"
expiresIn == 3600

\* The characters of a carrier are modelled as a sequence of atoms: a space,
\* the scheme label, or a whole token.  A token is a signed payload: an
\* object payload {sub, exp} ("jwt"), a bare string payload ("strjwt"), or
\* text that is not a token at all ("garbage").
Atom(kind, sub, exp, key) == [kind |-> kind, sub |-> sub, exp |-> exp, key |-> key]

SP == Atom("sp", "", 0, "")
BEARER == Atom("scheme", "", 0, "")

\* jwt.sign({ sub: username }, secret, { algorithm: 'HS256', expiresIn })
sign(username, key, now) == Atom("jwt", username, now + expiresIn, key)

\* tokens that were not issued by this server
ForgedTokens ==
    { Atom("jwt", "mallory", 3 * expiresIn, "NotTheSecret"),   \* bad signature
      Atom("strjwt", "", 0, secret),                           \* signed string payload
      Atom("garbage", "", 0, "") }                             \* not a token

\* values a handler manipulates: null, a decoded object payload, a decoded
\* string payload
NULL == [t |-> "null", sub |-> ""]
ObjPayload(sub) == [t |-> "object", sub |-> sub]
StrPayload == [t |-> "string", sub |-> ""]
THROWN == [t |-> "thrown", sub |-> ""]

\* typeof: null is an object
TypeOf(v) == IF v.t \in {"null", "object"} THEN "object" ELSE v.t

\* jwt.verify(token, secret): the decoded payload, or THROWN when it throws.
\* token is one field of the split carrier, a sequence of atoms
verify(token, key, now) ==
    IF Len(token) # 1 THEN THROWN
    ELSE LET a == token[1] IN
         IF a.kind \notin {"jwt", "strjwt"} THEN THROWN
         ELSE IF a.key # key THEN THROWN
         ELSE IF a.kind = "strjwt" THEN StrPayload
         ELSE IF now >= a.exp THEN THROWN
         ELSE ObjPayload(a.sub)

----------------------------------------------------------------------------
(* String operations of the middleware *)

RECURSIVE TrimLeft(_)
TrimLeft(s) == IF s # <<>> /\ Head(s) = SP THEN TrimLeft(Tail(s)) ELSE s

RECURSIVE TrimRight(_)
TrimRight(s) ==
    IF s # <<>> /\ s[Len(s)] = SP THEN TrimRight(SubSeq(s, 1, Len(s) - 1)) ELSE s

\* item.trim()
Trim(s) == TrimRight(TrimLeft(s))

RECURSIVE SplitFrom(_, _)
\* s.split(' ') with cur the field being read: every space ends a field, so
\* two spaces in a row give an empty field and the empty string gives [""]
SplitFrom(s, cur) ==
    IF s = <<>> THEN <<cur>>
    ELSE IF Head(s) = SP THEN <<cur>> \o SplitFrom(Tail(s), <<>>)
    ELSE SplitFrom(Tail(s), Append(cur, Head(s)))

Split(s) == SplitFrom(s, <<>>)

----------------------------------------------------------------------------
(* Carriers *)

\* a carrier as the middleware receives it: undefined, a string, or (cookies
\* only) a value that cookie-parser decoded from a "j:" JSON cookie
Absent == [type |-> "undefined", chars |-> <<>>]
Str(chars) == [type |-> "string", chars |-> chars]
JsonCookie == [type |-> "object", chars |-> <<>>]

\* if(item): undefined and the empty string are falsy
Truthy(item) == item.type = "object" \/ (item.type = "string" /\ item.chars # <<>>)

\* the strings a client builds around a token
Shapes(tok) ==
    { Str(<<tok>>),
      Str(<<BEARER, SP, tok>>),
      Str(<<SP, BEARER, SP, SP, tok, SP>>),
      Str(<<tok, SP, BEARER>>) }

\* a token sent as it is, or behind the scheme label
Plain(tok) == { Str(<<tok>>), Str(<<BEARER, SP, tok>>) }

\* the strings in which the token is the last whitespace-delimited field
TokenLast(tok) ==
    { Str(<<tok>>), Str(<<BEARER, SP, tok>>), Str(<<SP, BEARER, SP, SP, tok, SP>>) }

----------------------------------------------------------------------------
(* Authentication middleware, src/server.js *)

DecodeFirstField(item, now) ==
    IF item.type = "object" \/ (item.type = "string" /\ item.chars # <<>>)
    THEN IF item.type # "string" THEN THROWN
         ELSE LET splitted == Split(Trim(item.chars))
                  decoded == verify(splitted[1], secret, now)
              IN IF decoded = THROWN THEN NULL ELSE decoded
    ELSE NULL

\* the callback of data.map: THROWN stands for the TypeError of item.trim()
\* on a value that is not a string, which nothing catches
Decode(item, now) ==
    IF Truthy(item)
    THEN IF item.type # "string" THEN THROWN
         ELSE LET splitted == Split(Trim(item.chars))
                  token == IF Len(splitted) > 1 THEN splitted[Len(splitted)]
                           ELSE splitted[1]
                  decoded == verify(token, secret, now)
              IN IF decoded = THROWN THEN NULL ELSE decoded
    ELSE NULL

\* the predicate of data.find
IsSession(element) == TypeOf(element) = "object"

RECURSIVE FindLast(_, _)
FindLast(data, i) ==
    IF i > Len(data) THEN NULL
    ELSE LET later == FindLast(data, i + 1) IN
         IF later # NULL THEN later
         ELSE IF TypeOf(data[i]) = "object" THEN data[i] ELSE NULL

RECURSIVE Find(_, _)
\* data.find(...): the first element satisfying the predicate; the result
\* undefined is falsy like null and is represented by NULL
Find(data, i) ==
    IF i > Len(data) THEN NULL
    ELSE IF IsSession(data[i]) THEN data[i]
    ELSE Find(data, i + 1)

NoUser == [t |-> "null", id |-> ""]
User(sub) == [t |-> "user", id |-> sub]

\* the middleware as a whole: the value of res.locals.user, how many times
\* next() was called, and whether the error handler answered (status 500)
Middleware(cookie, header, now) ==
    LET c == Decode(cookie, now)
        h == Decode(header, now)
    IN IF c = THROWN \/ h = THROWN
       THEN [user |-> NoUser, nexts |-> 0, status |-> 500]
       ELSE LET session == Find(<<c, h>>, 1) IN
            [user |-> IF session # NULL THEN User(session.sub) ELSE NoUser,
             nexts |-> 1, status |-> 0]

----------------------------------------------------------------------------
(* Requests of the database-backed server that do not touch the database *)

Usernames == {"alice"}

\* bodies of POST /auth/token: username may be missing
TokenBodies == { [username |-> u] : u \in Usernames } \cup { [password |-> "pw"] }

\* const { username = "" } = req.body
UsernameOf(body) == IF "username" \in DOMAIN body THEN body.username ELSE ""

NoAreq ==
    [route |-> "none", cookie |-> Absent, header |-> Absent, at |-> 0,
     body |-> [none |-> "none"], user |-> NoUser, nexts |-> 0, status |-> 0,
     sent |-> NoUser, token |-> SP]

InitAuth ==
    /\ clock = 0
    /\ issued = {}
    /\ areq = NoAreq
    /\ ticks = 0

Init == InitFile /\ InitAuth /\ InitDb

\* the carriers a client can send: built from the tokens it was given and
\* from forged ones
CookieCarriers ==
    {Absent, Str(<<>>), Str(<<SP>>), JsonCookie}
        \cup { Str(<<t>>) : t \in ForgedTokens }
        \cup UNION { Shapes(t) : t \in issued }
HeaderCarriers ==
    {Absent} \cup { Str(<<t>>) : t \in ForgedTokens } \cup UNION { Plain(t) : t \in issued }

\* no request is being handled
Idle == areq = NoAreq

\* GET /user
GetUser(cookie, header) ==
    LET m == Middleware(cookie, header, clock) IN
    /\ Idle
    /\ areq' = [route |-> "GET /user", cookie |-> cookie, header |-> header, at |-> clock,
                body |-> [none |-> "none"], user |-> m.user, nexts |-> m.nexts,
                status |-> IF m.nexts = 1 THEN 200 ELSE m.status,
                sent |-> m.user, token |-> SP]
    /\ UNCHANGED <<clock, issued, ticks>>
    /\ UNCHANGED <<fileVars, dbVars>>

\* POST /auth/token
PostToken(cookie, header, body) ==
    LET m == Middleware(cookie, header, clock)
        token == sign(UsernameOf(body), secret, clock)
    IN
    /\ Idle
    /\ Cardinality(issued \cup {token}) <= MaxTokens
    /\ areq' = [route |-> "POST /auth/token", cookie |-> cookie, header |-> header,
                at |-> clock, body |-> body, user |-> m.user, nexts |-> m.nexts,
                status |-> IF m.nexts = 1 THEN 201 ELSE m.status,
                sent |-> NoUser, token |-> IF m.nexts = 1 THEN token ELSE SP]
    /\ issued' = IF m.nexts = 1 THEN issued \cup {token} ELSE issued
    /\ UNCHANGED <<clock, ticks>>
    /\ UNCHANGED <<fileVars, dbVars>>

\* DELETE /auth/token: res.clearCookie sets a header on res; the handler
\* returns without ending the response
DeleteToken(cookie, header) ==
    LET m == Middleware(cookie, header, clock) IN
    /\ Idle
    /\ areq' = [route |-> "DELETE /auth/token", cookie |-> cookie, header |-> header,
                at |-> clock, body |-> [none |-> "none"], user |-> m.user,
                nexts |-> m.nexts, status |-> IF m.nexts = 1 THEN 0 ELSE m.status,
                sent |-> NoUser, token |-> SP]
    /\ UNCHANGED <<clock, issued, ticks>>
    /\ UNCHANGED <<fileVars, dbVars>>

\* the response has left, or the client has stopped waiting for one, and
\* the request's req / res objects are dropped
EndRequest ==
    /\ ~Idle
    /\ areq' = NoAreq
    /\ UNCHANGED <<clock, issued, ticks>>
    /\ UNCHANGED <<fileVars, dbVars>>

\* time passes between requests
ClockSteps == {1, expiresIn - 1}

Tick(d) ==
    /\ Idle
    /\ ticks < MaxTicks
    /\ ticks' = ticks + 1
    /\ clock' = clock + d
    /\ UNCHANGED <<issued, areq>>
    /\ UNCHANGED <<fileVars, dbVars>>

NextAuth ==
    \/ \E c \in CookieCarriers, h \in HeaderCarriers : GetUser(c, h)
    \/ \E c \in {Absent, JsonCookie}, b \in TokenBodies : PostToken(c, Absent, b)
    \/ \E c \in {Absent, JsonCookie} \cup { Str(<<t>>) : t \in issued } : DeleteToken(c, Absent)
    \/ EndRequest
    \/ \E d \in ClockSteps : Tick(d)

----------------------------------------------------------------------------
(* Specifications *)

\* the file-backed server
SpecFile == Init /\ [][NextFile]_vars

\* the authentication pipeline
SpecAuth == Init /\ [][NextAuth]_vars

\* the database-backed movie routes
SpecDb == Init /\ [][NextDb]_vars

----------------------------------------------------------------------------
(* Properties of the file-backed server *)

Answered(r) == reqs[r].status # 0
Success(r) == reqs[r].op \in Mutating /\ reqs[r].status \in {201, 204}

\* some record of ms carries the title t
TitleIn(ms, t) == \E i \in DOMAIN ms : Get(ms[i], "title") = t

\* some record of ms other than the first one with id carries the title t
TitleOfOther(ms, id, t) ==
    \E i \in DOMAIN ms : i # findMovieById(ms, id) /\ Get(ms[i], "title") = t

\* number of records of ms that serialize to obj
Count(ms, obj) == Cardinality({ i \in DOMAIN ms : StringifyObj(ms[i]) = obj })

\* no request handled after r updates or deletes the record r is about
NoLaterMutation(r) ==
    \A q \in DOMAIN reqs :
        q > r => ~(reqs[q].op \in {"PUT", "DELETE"} /\ reqs[q].id = reqs[r].id)

\* C1: a create whose title equals the title of an existing record is answered
\* 409 (conflict), so that no two records come to share a title.
C1_CollidingCreateIsConflict ==
    \A r \in DOMAIN reqs :
        (/\ reqs[r].op = "POST"
         /\ Answered(r)
         /\ TitleIn(reqs[r].before, Get(reqs[r].body, "title")))
        => reqs[r].status = 409

\* C2: an update whose new title equals the title of a different existing
\* record is answered 409 (conflict).
C2_CollidingUpdateIsConflict ==
    \A r \in DOMAIN reqs :
        (/\ reqs[r].op = "PUT"
         /\ Answered(r)
         /\ reqs[r].found
         /\ TitleOfOther(reqs[r].before, reqs[r].id, Get(reqs[r].body, "title")))
        => reqs[r].status = 409

\* C3: a DELETE of an id that has no record (never created, or deleted
\* before) is answered 404 and not 204.
C3_DeleteOfAbsentIsNotFound ==
    \A r \in DOMAIN reqs :
        (reqs[r].op = "DELETE" /\ Answered(r) /\ ~reqs[r].found)
        => reqs[r].status = 404

\* C4: once a create has been answered 201, and as long as no later request
\* updates or deletes that id, the created record is found exactly once in
\* the in-memory collection and exactly once in the collection read back
\* from movies.json.
C4_SuccessIsDurable ==
    \A r \in DOMAIN reqs :
        (reqs[r].op = "POST" /\ reqs[r].status = 201 /\ NoLaterMutation(r))
        => /\ Count(movies, StringifyObj(NewMovie(reqs[r].body))) = 1
           /\ Count(JSONparse(file), StringifyObj(NewMovie(reqs[r].body))) = 1

\* C5: a create, update or delete is answered 201 / 204 only after the file
\* write started by that same request has been acknowledged without error.
C5_RespondAfterAck ==
    \A r \in DOMAIN reqs : Success(r) => reqs[r].acked

\* C5 witness: a create and a delete have both been answered with success
C5_Witness ==
    \E r, q \in DOMAIN reqs :
        /\ reqs[r].op = "POST" /\ reqs[r].status = 201 /\ reqs[r].acked
        /\ reqs[q].op = "DELETE" /\ reqs[q].status = 204 /\ reqs[q].acked

\* C6: when the file write of a mutating request fails, the request is
\* answered 500 and, no other mutating request having been handled, the
\* in-memory collection is what it was before the request.
C6_FailedWriteRollsBack ==
    \A r \in DOMAIN reqs :
        reqs[r].pc = "silent"
        => /\ reqs[r].status = 500
           /\ (\A q \in DOMAIN reqs : q # r => reqs[q].op \notin Mutating)
                => JSONstringify(movies) = JSONstringify(reqs[r].before)

\* the ids of the records of ms
IdsOf(ms) == { Get(ms[i], "id") : i \in DOMAIN ms }

\* C13: the id of a record that a create adds differs from the id of every
\* record present and of every record deleted earlier.
C13_FreshIds ==
    \A r \in DOMAIN reqs :
        (reqs[r].op = "POST" /\ reqs[r].status = 201)
        => /\ reqs[r].id \notin IdsOf(reqs[r].before)
           /\ \A q \in DOMAIN reqs :
                 (q < r /\ reqs[q].op = "DELETE" /\ reqs[q].found) => reqs[q].id # reqs[r].id

\* C15: at no time are two mutating requests both between the start of their
\* check and the acknowledgment of their file write.
C15_MutualExclusion ==
    Cardinality({ r \in DOMAIN reqs : reqs[r].op \in Mutating /\ reqs[r].pc = "writing" }) <= 1

\* the values of the mutable fields of a record
MutablePart(x) == [k \in MutableFields |-> Get(x, k)]

\* the field values that some request body or some record of the initial
\* file carries together
WholeValues ==
    { MutablePart(b) : b \in Bodies }
        \cup UNION { { MutablePart(f[i]) : i \in DOMAIN f } : f \in InitialFiles }

\* every record of the collection carries the values of one whole write
AllWhole(ms) == \A i \in DOMAIN ms : MutablePart(ms[i]) \in WholeValues

\* C16: every record returned by GET /movies or GET /movies/:id, and every
\* record of a snapshot serialized by db_save, carries all the field values
\* of one write: never some fields of an update and the others from before.
C16_NoPartialRecord ==
    \A r \in DOMAIN reqs :
        /\ reqs[r].op \in {"LIST", "GET"} => AllWhole(reqs[r].before)
        /\ reqs[r].snap # NoSnap => AllWhole(JSONparse(reqs[r].snap))

\* C16 witness: a read handled after an update returns the record with all
\* of the update's values, which differ from the values before
C16_Witness ==
    \E r, q \in DOMAIN reqs :
        /\ r < q
        /\ reqs[r].op = "PUT" /\ reqs[r].found
        /\ reqs[q].op = "GET" /\ reqs[q].id = reqs[r].id /\ reqs[q].found
        /\ LET old == reqs[r].before[findMovieById(reqs[r].before, reqs[r].id)]
               seen == reqs[q].before[findMovieById(reqs[q].before, reqs[q].id)]
           IN /\ MutablePart(seen) = MutablePart(reqs[r].body)
              /\ MutablePart(seen) # MutablePart(old)

\* the step handles a new request, the last of reqs'
Handles == Len(reqs') = Len(reqs) + 1

\* positions of ms whose record does not carry id
Others(ms, id) == { i \in DOMAIN ms : Get(ms[i], "id") # id }

\* C17: the handler of a request never writes the file itself; list, get and
\* every request answered 404 or 409 leave the collection unchanged; an
\* update keeps the length, the ids and every record but the first one with
\* its id; a delete keeps, in order, exactly the records of other ids.
C17_Frame ==
    [][ Handles =>
          LET q == reqs'[Len(reqs')] IN
          /\ file' = file
          /\ (q.op \in {"LIST", "GET"} \/ q.status \in {404, 409}) => movies' = movies
          /\ (q.op = "PUT" /\ q.found) =>
                /\ Len(movies') = Len(movies)
                /\ \A i \in DOMAIN movies :
                      /\ Get(movies'[i], "id") = Get(movies[i], "id")
                      /\ i # findMovieById(movies, q.id) => movies'[i] = movies[i]
          /\ q.op = "DELETE" =>
                /\ Others(movies', q.id) = DOMAIN movies'
                /\ movies' = SelectSeq(movies, LAMBDA x : Get(x, "id") # q.id)
      ]_vars

\* C17 witness: an update has changed one record of a collection of two
C17_Witness ==
    \E r \in DOMAIN reqs :
        /\ reqs[r].op = "PUT" /\ reqs[r].found
        /\ Len(reqs[r].before) = 2
        /\ MutablePart(reqs[r].body)
             # MutablePart(reqs[r].before[findMovieById(reqs[r].before, reqs[r].id)])

\* C18: the records of the in-memory collection have pairwise distinct ids
\* (a missing id counting as the id undefined).
C18_DistinctIds ==
    \A i, j \in DOMAIN movies : i # j => Get(movies[i], "id") # Get(movies[j], "id")

\* C18 witness: a second create without id was refused while the record of
\* the first one, and a record with an id, are in the collection
C18_Witness ==
    /\ \E r \in DOMAIN reqs :
          reqs[r].op = "POST" /\ reqs[r].id = UNDEF /\ reqs[r].status = 409
    /\ UNDEF \in IdsOf(movies)
    /\ Len(movies) >= 2


----------------------------------------------------------------------------
(* Properties of the authentication pipeline *)

Handled == areq.route # "none"

\* the carrier holds, as its last field, a token this server issued and that
\* has not expired at time now
ValidCarrier(c, now) == \E t \in issued : c \in TokenLast(t) /\ now < t.exp

\* the identities of the issued tokens the carrier holds as its last field
IdentitiesOf(c) == { User(t.sub) : t \in { x \in issued : c \in TokenLast(x) } }

\* C7: when the cookie carrier does not hold a valid token and the header
\* carrier does, the identity is the one derived from the header token.
C7_HeaderFallback ==
    (/\ Handled
     /\ areq.nexts = 1
     /\ ~ValidCarrier(areq.cookie, areq.at)
     /\ ValidCarrier(areq.header, areq.at))
    => areq.user \in IdentitiesOf(areq.header)

\* C8: when the cookie and the header both carry a valid token and the two
\* tokens differ, res.locals.user is the identity of the cookie's token.
C8_CookiePrecedence ==
    (/\ Handled
     /\ ValidCarrier(areq.cookie, areq.at)
     /\ ValidCarrier(areq.header, areq.at)
     /\ \A t \in issued : ~(areq.cookie \in TokenLast(t) /\ areq.header \in TokenLast(t)))
    => /\ areq.nexts = 1
       /\ areq.user \in IdentitiesOf(areq.cookie)

\* C8 witness: two valid tokens of different subjects, the cookie's one wins
C8_Witness ==
    /\ Handled
    /\ ValidCarrier(areq.cookie, areq.at)
    /\ ValidCarrier(areq.header, areq.at)
    /\ IdentitiesOf(areq.cookie) \cap IdentitiesOf(areq.header) = {}
    /\ areq.user \in IdentitiesOf(areq.cookie)

\* C9: the token POST /auth/token issues for s carries s and expires 3600 s
\* after issue; sent back as the cookie, bare or behind a scheme label, it
\* resolves to the identity s while the clock is before its expiry, and
\* (no other carrier being sent) to no identity from its expiry on.
C9_RoundTrip ==
    /\ (areq.route = "POST /auth/token" /\ areq.status = 201)
        => /\ areq.token \in issued
           /\ areq.token.sub = UsernameOf(areq.body)
           /\ areq.token.exp = areq.at + 3600
    /\ \A t \in issued :
          (Handled /\ areq.cookie \in TokenLast(t))
          => /\ areq.at < t.exp => areq.user = User(t.sub)
             /\ (areq.at >= t.exp /\ areq.header = Absent) => areq.user = NoUser

\* C9 witness: a token sent behind the scheme label resolves to its subject
\* on a request made after time has passed
C9_Witness ==
    \E t \in issued :
        /\ Handled
        /\ areq.cookie = Str(<<BEARER, SP, t>>)
        /\ areq.at > 0
        /\ areq.at < t.exp
        /\ areq.user = User(t.sub)

\* C10: whatever the carriers, the middleware sends no error response and
\* calls next() exactly once.
C10_NeverBlocks ==
    Handled => (areq.nexts = 1 /\ areq.status # 500)

\* C12: every request whose handler has run to its end has been sent a
\* response (the handlers of this pipeline leave no callback pending).
C12_EveryRequestAnswered ==
    Handled => areq.status # 0

----------------------------------------------------------------------------
(* Properties of the database-backed movie routes *)

HasUnique(err) == \E i \in DOMAIN err.errors : err.errors[i].kind = "unique"

\* C11: the status sent for a failure is 409 for a validation failure with
\* at least one field error of kind unique, 400 for a validation failure
\* with none, and 500 for every other failure.
C11_Classifier ==
    \A r \in DOMAIN dreqs :
        dreqs[r].err # NoErr
        => /\ (dreqs[r].err.name = "ValidationError" /\ HasUnique(dreqs[r].err))
                => dreqs[r].status = 409
           /\ (dreqs[r].err.name = "ValidationError" /\ ~HasUnique(dreqs[r].err))
                => dreqs[r].status = 400
           /\ dreqs[r].err.name # "ValidationError" => dreqs[r].status = 500

\* C11 witness: a validation failure with a required and a unique field
\* error was answered 409
C11_Witness ==
    \E r \in DOMAIN dreqs :
        /\ dreqs[r].err.name = "ValidationError"
        /\ HasUnique(dreqs[r].err)
        /\ \E i \in DOMAIN dreqs[r].err.errors : dreqs[r].err.errors[i].kind = "required"
        /\ dreqs[r].status = 409

\* the request is a create that passed validation and whose insert was
\* answered by the database
Raced(r) ==
    /\ dreqs[r].op = "POST"
    /\ dreqs[r].pc = "done"
    /\ dreqs[r].err.name \notin {"ValidationError", "MongoNetworkError"}

\* C14: with the unique index built, of two creates with the same title
\* that both ran the uniqueness validation before either insert landed, one
\* is answered 201 and the other 409, and one document with that title is
\* stored.
C14_ConcurrentCreate ==
    \A r, q \in DOMAIN dreqs :
        (/\ indexed
         /\ r # q
         /\ Raced(r) /\ Raced(q)
         /\ Get(dreqs[r].body, "title") = Get(dreqs[q].body, "title"))
        => /\ {dreqs[r].status, dreqs[q].status} = {201, 409}
           /\ Cardinality({ i \in DOMAIN coll : coll[i].title = Get(dreqs[r].body, "title") }) = 1
====
